---- MODULE Spec2Model ----
(***************************************************************************)
(* Model of the relay crawler: Relays (src/src/relays.rs) and RelayManager *)
(* (src/src/relay_manager.rs).  The nostr_sdk Client is the environment:   *)
(* it holds the pool of relays with their statuses, may fail the calls     *)
(* that return a Result, and produces the notification stream.  The       *)
(* iteration order of the HashSet is arbitrary but the same for all the    *)
(* iterations of one unchanged set within a step.  The system clock does   *)
(* not go backwards.                                                       *)
(***************************************************************************)
EXTENDS Integers, Sequences, FiniteSets, TLC

VARIABLES
    pc,               \* position of the caller / of run()
    r,                \* Relays.r : the set of parsed urls
    pool,             \* relay_client.relays(): url -> RelayStatus
    eose_relays,      \* local of wait_and_handle_messages ({} outside of it)
    time_last_event,  \* RelayManager.time_last_event
    now,              \* the system clock read by RelayManager::now
    stop,             \* which exit of the notification loop was taken
    err,              \* the error run() returned ("none": no error)
    calls,            \* client / processor calls made by the last step
    notification,     \* the notification the loop handled last (none outside of it)
    runs,             \* number of run() invocations so far
    ret               \* output of Relays::dump / return value of the last Relays call

vars == <<pc, r, pool, eose_relays, time_last_event, now, stop, err,
          calls, notification, runs, ret>>

----------------------------------------------------------------------------
(* Bounds of the model *)

\* pool capacity; 50 in the source, scaled down so that the cap is reached
MAX_ACTIVE_RELAYS == 2
\* the clock stops advancing at MaxTime
MaxTime == 30
\* seconds added by one clock step
TickStep == 10
\* run() is invoked at most MaxRuns times on one RelayManager (Rerun)
MaxRuns == 2

(* Program constant: the idle threshold of the second stop check *)
IDLE_SECS == 20

----------------------------------------------------------------------------
(* Urls: Url::parse on the raw strings the model feeds in.  ws/wss are     *)
(* special schemes: scheme and host are lower-cased and an empty path      *)
(* becomes "/".  The parsed Url is represented by its serialization.       *)

NoUrl == "<parse error>"

RawStrings ==
    {"wss://a", "WSS://A/", "wss://b", "wss://c/x", "wss://relay.gnostr.org", "not a url"}

UrlParse(s) ==
    CASE s = "wss://a" -> "wss://a/"
      [] s = "WSS://A/" -> "wss://a/"
      [] s = "wss://a/" -> "wss://a/"
      [] s = "wss://b" -> "wss://b/"
      [] s = "wss://b/" -> "wss://b/"
      [] s = "wss://c/x" -> "wss://c/x"
      [] s = "wss://relay.gnostr.org" -> "wss://relay.gnostr.org/"
      [] s = "wss://relay.gnostr.org/" -> "wss://relay.gnostr.org/"
      [] OTHER -> NoUrl

Urls == {UrlParse(s) : s \in RawStrings} \ {NoUrl}

Range(f) == {f[i] : i \in DOMAIN f}

\* the iteration orders a HashSet holding S can have
RECURSIVE Orders(_)
Orders(S) ==
    IF S = {} THEN {<<>>}
    ELSE UNION {{<<x>> \o t : t \in Orders(S \ {x})} : x \in S}

----------------------------------------------------------------------------
(* Relays (relays.rs) *)

\* faulty variant of Relays::add: the set keeps the raw string instead of the parsed url
RelaysAdd_raw(rs, s1) ==
    LET u == UrlParse(s1) IN
    IF u # NoUrl
    THEN [r |-> rs \cup {s1}, res |-> s1 \notin rs]
    ELSE [r |-> rs, res |-> FALSE]

\* faulty variant of Relays::add: returns true for every address that parses
RelaysAdd_true(rs, s1) ==
    LET u == UrlParse(s1) IN
    IF u # NoUrl
    THEN [r |-> rs \cup {u}, res |-> TRUE]
    ELSE [r |-> rs, res |-> FALSE]

\* faulty variant of Relays::add: an address that does not parse is kept as it is
RelaysAdd_unparsed(rs, s1) ==
    LET u == UrlParse(s1) IN
    IF u # NoUrl
    THEN [r |-> rs \cup {u}, res |-> u \notin rs]
    ELSE [r |-> rs \cup {s1}, res |-> s1 \notin rs]

\* Relays::add on the set: the new set and the returned bool
RelaysAdd(rs, s1) ==
    LET u == UrlParse(s1) IN
    IF u # NoUrl
    THEN [r |-> rs \cup {u}, res |-> u \notin rs]
    ELSE [r |-> rs, res |-> FALSE]

RelaysCount(rs) == Cardinality(rs)

RECURSIVE GetSomeLoop(_, _, _)
GetSomeLoop(ord, res, max_count) ==
    IF ord = <<>> THEN res
    ELSE LET res2 == Append(res, Head(ord)) IN
         IF Len(res2) >= max_count THEN res2
         ELSE GetSomeLoop(Tail(ord), res2, max_count)

\* faulty variant of Relays::get_some: the length test lets one more element through
RelaysGetSome_more(ord, max_count) == GetSomeLoop(ord, <<>>, max_count + 1)

\* faulty variant of Relays::get_some: the loop ends one element early
RelaysGetSome_fewer(ord, max_count) == GetSomeLoop(ord, <<>>, max_count - 1)

\* Relays::get_some, iterating the set in the order ord
RelaysGetSome(ord, max_count) == GetSomeLoop(ord, <<>>, max_count)

SEED_URL == "wss://relay.gnostr.org"

\* Relays::dump: the printed entries, as <<index, text>> pairs
RelaysDump(ord) ==
    [i \in 1..(Len(ord) + 1) |->
        IF i <= Len(ord) THEN <<i - 1, ord[i]>> ELSE <<Len(ord), SEED_URL>>]

----------------------------------------------------------------------------
(* Events delivered by the relays.  A tag is <<"PubKey", hint>> (Tag::PubKey *)
(* with its optional relay hint) or <<"Other", text>>.                      *)

NoHint == "<no hint>"

P(s) == <<"PubKey", s>>

TagLists ==
    { <<>>,
      <<P("wss://a")>>,
      <<P("wss://b"), P("wss://relay.gnostr.org")>>,
      <<P(NoHint), P("not a url")>>,
      <<P("wss://c/x")>>,
      <<<<"Other", "wss://b">>, P("WSS://A/")>> }

LongFormTagLists == { <<P("wss://b"), P("wss://b")>>, <<P("wss://relay.gnostr.org")>> }

RecommendContents == {"wss://b", "WSS://A/", "not a url"}

DiscoveryKinds == {"ContactList", "LongFormTextNote", "RecommendRelay"}
OtherKinds == {"TextNote", "RelayList"}

Events ==
    {[kind |-> "ContactList", tags |-> t, content |-> ""] : t \in TagLists}
    \cup {[kind |-> "LongFormTextNote", tags |-> t, content |-> "wss://a"] :
            t \in LongFormTagLists}
    \cup {[kind |-> "RecommendRelay", tags |-> <<P("wss://a")>>, content |-> c] :
            c \in RecommendContents}
    \cup {[kind |-> k, tags |-> <<P("wss://b")>>, content |-> "wss://a"] : k \in OtherKinds}

\* the loop over event.tags of the ContactList / LongFormTextNote arms
RECURSIVE AddTagRelays(_, _)
AddTagRelays(rs, tags) ==
    IF tags = <<>> THEN rs
    ELSE LET t == Head(tags) IN
         AddTagRelays(IF t[1] = "PubKey" /\ t[2] # NoHint THEN RelaysAdd(rs, t[2]).r ELSE rs,
                      Tail(tags))

\* faulty variant of RelayManager::handle_event: every kind of event updates
\* time_last_event
handle_event_touch(rs, tle, clock, event) ==
    CASE event.kind \in {"LongFormTextNote", "ContactList"} ->
            [r |-> AddTagRelays(rs, event.tags), time_last_event |-> clock]
      [] event.kind = "RecommendRelay" ->
            [r |-> RelaysAdd(rs, event.content).r, time_last_event |-> clock]
      [] OTHER -> [r |-> rs, time_last_event |-> clock]

\* RelayManager::handle_event: the registry and time_last_event it leaves
handle_event(rs, tle, clock, event) ==
    CASE event.kind \in {"LongFormTextNote", "ContactList"} ->
            [r |-> AddTagRelays(rs, event.tags), time_last_event |-> clock]
      [] event.kind = "RecommendRelay" ->
            [r |-> RelaysAdd(rs, event.content).r, time_last_event |-> clock]
      [] OTHER -> [r |-> rs, time_last_event |-> tle]

\* RelayManager::get_last_event_ago
get_last_event_ago(clock, tle) == clock - tle

----------------------------------------------------------------------------
(* The connection-pool client: a map url -> status *)

EmptyPool == [x \in {} |-> "Initialized"]

Restrict(p, S) == [x \in S |-> p[x]]

ClientAddRelay(p, u) ==
    IF u \in DOMAIN p THEN p
    ELSE [x \in DOMAIN p \cup {u} |-> IF x = u THEN "Initialized" ELSE p[x]]

RECURSIVE ClientAddAll(_, _)
ClientAddAll(p, urls) ==
    IF urls = <<>> THEN p ELSE ClientAddAll(ClientAddRelay(p, Head(urls)), Tail(urls))

ClientConnect(p) ==
    [x \in DOMAIN p |-> IF p[x] \in {"Initialized", "Terminated"} THEN "Connecting" ELSE p[x]]

ClientDisconnect(p) == [x \in DOMAIN p |-> "Terminated"]

\* the statuses a relay moves between on its own while the pool is connected
LiveStatus == {"Connecting", "Connected", "Disconnected"}

\* the adds of a `for url in some { add_relay(url)? }` loop: every outcome
AddLoop(p, some) ==
    {[pool |-> ClientAddAll(p, SubSeq(some, 1, j - 1)), err |-> "add_relay"] :
        j \in 1..Len(some)}
    \cup {[pool |-> ClientAddAll(p, some), err |-> "none"]}

\* RelayManager::add_some_relays: every outcome [pool, err]
add_some_relays(p, ord) ==
    {[pool |-> Restrict(p, S), err |-> "remove_relay"] :
        S \in IF DOMAIN p = {} THEN {} ELSE SUBSET DOMAIN p}
    \cup AddLoop(EmptyPool, RelaysGetSome(ord, MAX_ACTIVE_RELAYS))

\* faulty variant of the reconnect condition: >= instead of >
ReconnectCond_ge(connected_relays, available_relays) ==
    connected_relays < MAX_ACTIVE_RELAYS /\ available_relays >= connected_relays

\* faulty variant of the reconnect condition: the registry is not compared
\* with the pool
ReconnectCond_below(connected_relays, available_relays) ==
    connected_relays < MAX_ACTIVE_RELAYS

\* the condition of RelayManager::reconnect
ReconnectCond(connected_relays, available_relays) ==
    connected_relays < MAX_ACTIVE_RELAYS /\ available_relays > connected_relays

\* RelayManager::reconnect: every outcome [pool, err, calls], for every order
\* in which get_some may iterate the registry rs
reconnect(p, rs) ==
    IF ReconnectCond(Cardinality(DOMAIN p), RelaysCount(rs))
    THEN {[pool |-> p, err |-> "disconnect", calls |-> <<"disconnect">>]}
         \cup {[pool |-> IF o.err = "none" THEN ClientConnect(o.pool) ELSE o.pool,
                err |-> o.err,
                calls |-> IF o.err = "none"
                          THEN <<"disconnect", "add_some_relays", "connect">>
                          ELSE <<"disconnect", "add_some_relays">>] :
                o \in UNION {add_some_relays(ClientDisconnect(p), ord) : ord \in Orders(rs)}}
    ELSE {[pool |-> p, err |-> "none", calls |-> <<>>]}

\* RelayManager::add_bootstrap_relays_if_needed
RECURSIVE add_bootstrap_relays_if_needed(_, _)
add_bootstrap_relays_if_needed(rs, bootstrap_relays) ==
    IF bootstrap_relays = <<>> THEN rs
    ELSE IF RelaysCount(rs) >= MAX_ACTIVE_RELAYS THEN rs
    ELSE add_bootstrap_relays_if_needed(RelaysAdd(rs, Head(bootstrap_relays)).r,
                                        Tail(bootstrap_relays))

BootstrapLists ==
    { <<>>,
      <<"wss://a">>,
      <<"wss://a", "WSS://A/", "not a url">>,
      <<"wss://a", "wss://b", "wss://relay.gnostr.org">> }

----------------------------------------------------------------------------
(* State *)

NoNotification == [type |-> "none", kind |-> "none"]

\* RelayManager::new
Init ==
    /\ pc = "ready"
    /\ r = {}
    /\ pool = EmptyPool
    /\ eose_relays = {}
    /\ now = 0
    /\ time_last_event = 0
    /\ stop = "none"
    /\ err = "none"
    /\ calls = <<>>
    /\ notification = NoNotification
    /\ runs = 0
    /\ ret = <<>>

----------------------------------------------------------------------------
(* run(): seeding, activation, subscription *)

\* faulty variant of the start of run(): the registry is created anew
Seed_fresh(bootstrap_relays) ==
    /\ runs' = runs + 1
    /\ r' = add_bootstrap_relays_if_needed({}, bootstrap_relays)
    /\ pc' = "activate"
    /\ err' = "none"
    /\ stop' = "none"
    /\ calls' = <<>>
    /\ notification' = NoNotification
    /\ ret' = <<>>
    /\ UNCHANGED <<pool, eose_relays, time_last_event, now>>

\* run() is called: add_bootstrap_relays_if_needed
Seed(bootstrap_relays) ==
    /\ runs' = runs + 1
    /\ r' = add_bootstrap_relays_if_needed(r, bootstrap_relays)
    /\ pc' = "activate"
    /\ err' = "none"
    /\ stop' = "none"
    /\ calls' = <<>>
    /\ notification' = NoNotification
    /\ ret' = <<>>
    /\ UNCHANGED <<pool, eose_relays, time_last_event, now>>

\* the first run() on a new RelayManager
RunSeed(bootstrap_relays) ==
    /\ pc = "ready"
    /\ Seed(bootstrap_relays)

\* run() is called again after it returned
Rerun(bootstrap_relays) ==
    /\ pc \in {"stopped", "failed"}
    /\ runs < MaxRuns
    /\ Seed(bootstrap_relays)

\* every outcome of the second get_some and its add_relay loop after add_some_relays
AddAgain(first, ord) ==
    IF first.err # "none" THEN {first}
    ELSE AddLoop(first.pool, RelaysGetSome(ord, MAX_ACTIVE_RELAYS))

\* run(): self.add_some_relays().await? and the second get_some with its
\* add_relay loop; both iterate the unchanged HashSet in the same order
RunActivate ==
    /\ pc = "activate"
    /\ \E o \in UNION {UNION {AddAgain(first, ord) : first \in add_some_relays(pool, ord)} :
                        ord \in Orders(r)} :
          /\ pool' = o.pool
          /\ err' = o.err
          /\ pc' = IF o.err = "none" THEN "connect" ELSE "failed"
    /\ calls' = <<"add_some_relays", "add_relay">>
    /\ UNCHANGED <<r, eose_relays, time_last_event, now, stop, notification,
                   runs, ret>>

\* run(): self.connect().await?
RunConnect ==
    /\ pc = "connect"
    /\ pool' = ClientConnect(pool)
    /\ pc' = "subscribe"
    /\ calls' = <<"connect">>
    /\ UNCHANGED <<r, eose_relays, time_last_event, now, stop, err, notification,
                   runs, ret>>

\* what a call of the client that can fail yields
ClientResults == {"Ok", "Err"}

\* the entry of the call log for a client call whose result the code drops
Dropped(op, res) == IF res = "Ok" THEN <<op>> ELSE <<op, "Err">>

\* wait_and_handle_messages: the new eose_relays, subscribe, notifications();
\* subscribe() drops what the client's subscribe yields and returns Ok(())
Subscribe ==
    /\ pc = "subscribe"
    /\ eose_relays' = {}
    /\ pc' = "listening"
    /\ \E res \in ClientResults : calls' = Dropped("subscribe", res)
    /\ UNCHANGED <<r, pool, time_last_event, now, stop, err, notification,
                   runs, ret>>

----------------------------------------------------------------------------
(* The notification loop.  One action handles one notification to the end  *)
(* of the loop body: the match, the idle check and reconnect().            *)

\* faulty variant of the quorum check: > instead of >=
QuorumStop_gt(n1, n_connected, n_connecting) ==
    n1 > (n_connected + n_connecting) /\ (n_connected + n_connecting > 0)

\* faulty variant of the quorum check: the test for an empty pool is missing
QuorumStop_nonempty(n1, n_connected, n_connecting) ==
    n1 >= (n_connected + n_connecting)

\* the stop check of the EndOfStoredEvents arm
QuorumStop(n1, n_connected, n_connecting) ==
    n1 >= (n_connected + n_connecting) /\ (n_connected + n_connecting > 0)

\* faulty variant of the idle check: >= instead of >
IdleStop_ge(last_age, n1) == last_age >= IDLE_SECS /\ n1 >= 2

\* the stop check after the match
IdleStop(last_age, n1) == last_age > IDLE_SECS /\ n1 >= 2

\* faulty variant of the rest of the loop body: the idle check comes before
\* the break of the match
LoopTail_idle_first(n, r2, tle2, eose2, brk, cs) ==
    /\ r' = r2
    /\ time_last_event' = tle2
    /\ IF IdleStop(get_last_event_ago(now, tle2), Cardinality(eose2))
       THEN /\ stop' = "idle"
            /\ pc' = "draining"
            /\ calls' = cs
            /\ eose_relays' = eose2
            /\ notification' = n
            /\ UNCHANGED <<pool, err>>
       ELSE IF brk # "none"
       THEN /\ stop' = brk
            /\ pc' = "draining"
            /\ calls' = cs
            /\ eose_relays' = eose2
            /\ notification' = n
            /\ UNCHANGED <<pool, err>>
       ELSE \E o \in reconnect(pool, r2) :
               /\ pool' = o.pool
               /\ err' = o.err
               /\ calls' = cs \o o.calls
               /\ pc' = IF o.err = "none" THEN "listening" ELSE "failed"
               /\ eose_relays' = IF o.err = "none" THEN eose2 ELSE {}
               /\ notification' = IF o.err = "none" THEN n ELSE NoNotification
               /\ UNCHANGED stop
    /\ UNCHANGED <<now, runs, ret>>

\* the rest of the loop body after the match on the notification n; brk is
\* the break taken in the match.  An error of reconnect() returns from the
\* function, which drops eose_relays and the notification.
LoopTail(n, r2, tle2, eose2, brk, cs) ==
    /\ r' = r2
    /\ time_last_event' = tle2
    /\ IF brk # "none"
       THEN /\ stop' = brk
            /\ pc' = "draining"
            /\ calls' = cs
            /\ eose_relays' = eose2
            /\ notification' = n
            /\ UNCHANGED <<pool, err>>
       ELSE IF IdleStop(get_last_event_ago(now, tle2), Cardinality(eose2))
       THEN /\ stop' = "idle"
            /\ pc' = "draining"
            /\ calls' = cs
            /\ eose_relays' = eose2
            /\ notification' = n
            /\ UNCHANGED <<pool, err>>
       ELSE \E o \in reconnect(pool, r2) :
               /\ pool' = o.pool
               /\ err' = o.err
               /\ calls' = cs \o o.calls
               /\ pc' = IF o.err = "none" THEN "listening" ELSE "failed"
               /\ eose_relays' = IF o.err = "none" THEN eose2 ELSE {}
               /\ notification' = IF o.err = "none" THEN n ELSE NoNotification
               /\ UNCHANGED stop
    /\ UNCHANGED <<now, runs, ret>>

\* RelayPoolNotification::Event
HandleEvent(event) ==
    /\ pc = "listening"
    /\ LET h == handle_event(r, time_last_event, now, event) IN
       LoopTail([type |-> "Event", kind |-> event.kind], h.r, h.time_last_event,
                eose_relays, "none", <<"processor.handle_event">>)

\* RelayPoolNotification::Message(url, EndOfStoredEvents), from a relay of the pool
HandleEose(url) ==
    /\ pc = "listening"
    /\ LET eose2 == eose_relays \cup {url}
           n1 == Cardinality(eose2)
           n_connected == Cardinality({u \in DOMAIN pool : pool[u] = "Connected"})
           n_connecting == Cardinality({u \in DOMAIN pool : pool[u] = "Connecting"})
       IN LoopTail([type |-> "EndOfStoredEvents", kind |-> "none"], r, time_last_event, eose2,
                   IF QuorumStop(n1, n_connected, n_connecting) THEN "quorum" ELSE "none",
                   <<>>)

\* faulty variant of the arm for the other relay messages: it breaks out of the loop
HandleOtherMessage_break ==
    /\ pc = "listening"
    /\ LoopTail([type |-> "Message", kind |-> "none"], r, time_last_event, eose_relays,
                "message", <<>>)

\* RelayPoolNotification::Message with any other relay message
HandleOtherMessage ==
    /\ pc = "listening"
    /\ LoopTail([type |-> "Message", kind |-> "none"], r, time_last_event, eose_relays,
                "none", <<>>)

\* RelayPoolNotification::Shutdown
HandleShutdown ==
    /\ pc = "listening"
    /\ LoopTail([type |-> "Shutdown", kind |-> "none"], r, time_last_event, eose_relays,
                "shutdown", <<>>)

\* notifications.recv() returns Err: the while-let ends the loop
RecvError ==
    /\ pc = "listening"
    /\ notification' = [type |-> "RecvError", kind |-> "none"]
    /\ stop' = "recv_error"
    /\ pc' = "draining"
    /\ calls' = <<>>
    /\ UNCHANGED <<r, pool, eose_relays, time_last_event, now, err, runs, ret>>

----------------------------------------------------------------------------
(* After the loop *)

\* faulty variant of the end of wait_and_handle_messages: disconnect comes
\* before unsubscribe
Drain_reversed ==
    /\ pc = "draining"
    /\ \E res \in ClientResults :
          calls' = <<"disconnect">> \o Dropped("unsubscribe", res)
    /\ \/ /\ pool' = ClientDisconnect(pool)
          /\ pc' = "dump"
          /\ UNCHANGED err
       \/ /\ err' = "disconnect"
          /\ pc' = "failed"
          /\ UNCHANGED pool
    /\ eose_relays' = {}
    /\ notification' = NoNotification
    /\ UNCHANGED <<r, time_last_event, now, stop, runs, ret>>

\* wait_and_handle_messages: self.unsubscribe().await?; self.disconnect().await?
\* and the return, which drops eose_relays and the notification; unsubscribe()
\* drops what the client's unsubscribe yields and returns Ok(())
Drain ==
    /\ pc = "draining"
    /\ \E res \in ClientResults :
          calls' = Dropped("unsubscribe", res) \o <<"disconnect">>
    /\ \/ /\ pool' = ClientDisconnect(pool)
          /\ pc' = "dump"
          /\ UNCHANGED err
       \/ /\ err' = "disconnect"
          /\ pc' = "failed"
          /\ UNCHANGED pool
    /\ eose_relays' = {}
    /\ notification' = NoNotification
    /\ UNCHANGED <<r, time_last_event, now, stop, runs, ret>>

\* run(): self.relays.dump(); Ok(())
Dump ==
    /\ pc = "dump"
    /\ \E ord \in Orders(r) : ret' = RelaysDump(ord)
    /\ pc' = "stopped"
    /\ calls' = <<"dump">>
    /\ UNCHANGED <<r, pool, eose_relays, time_last_event, now, stop, err,
                   notification, runs>>

----------------------------------------------------------------------------
(* Environment *)

\* a relay of the pool changes status on its own
StatusChange(u, s) ==
    /\ pc = "listening"
    /\ u \in DOMAIN pool
    /\ pool[u] \in LiveStatus
    /\ s # pool[u]
    /\ pool' = [pool EXCEPT ![u] = s]
    /\ UNCHANGED <<pc, r, eose_relays, time_last_event, now, stop, err, calls,
                   notification, runs, ret>>

\* the system clock advances
Tick ==
    /\ pc \in {"ready", "listening"}
    /\ now + TickStep <= MaxTime
    /\ now' = now + TickStep
    /\ UNCHANGED <<pc, r, pool, eose_relays, time_last_event, stop, err, calls,
                   notification, runs, ret>>

Next ==
    \/ \E b \in BootstrapLists : RunSeed(b)
    \/ RunActivate
    \/ RunConnect
    \/ Subscribe
    \/ \E e \in Events : HandleEvent(e)
    \/ \E u \in DOMAIN pool : HandleEose(u)
    \/ HandleOtherMessage
    \/ HandleShutdown
    \/ RecvError
    \/ Drain
    \/ Dump
    \/ \E u \in DOMAIN pool, s \in LiveStatus : StatusChange(u, s)
    \/ Tick

Spec == Init /\ [][Next]_vars

\* the same RelayManager with run() called again after it returned
NextRerun ==
    \/ Next
    \/ \E b \in BootstrapLists : Rerun(b)

SpecRerun == Init /\ [][NextRerun]_vars

----------------------------------------------------------------------------
(* The Relays type on its own: calls of add, get_some and dump with inputs *)
(* drawn from RawStrings and 0..MaxSample.  ret holds the records of the   *)
(* last two calls: the call, its argument, its return value and the set    *)
(* before and after it.                                                    *)

\* largest max_count passed to get_some
MaxSample == 3

InitRelays == Init

Called(op, arg, val, before, after) ==
    [op |-> op, arg |-> arg, val |-> val, before |-> before, after |-> after]

Last2(hist, rec) == IF hist = <<>> THEN <<rec>> ELSE <<hist[Len(hist)], rec>>

CallAdd(s1) ==
    /\ LET a == RelaysAdd(r, s1) IN
          /\ r' = a.r
          /\ ret' = Last2(ret, Called("add", s1, a.res, r, a.r))
    /\ UNCHANGED <<pc, pool, eose_relays, time_last_event, now, stop, err, calls,
                   notification, runs>>

CallGetSome(max_count) ==
    /\ \E ord \in Orders(r) :
          ret' = Last2(ret, Called("get_some", max_count, RelaysGetSome(ord, max_count), r, r))
    /\ UNCHANGED <<pc, r, pool, eose_relays, time_last_event, now, stop, err,
                   calls, notification, runs>>

CallDump ==
    /\ \E ord \in Orders(r) : ret' = Last2(ret, Called("dump", "", RelaysDump(ord), r, r))
    /\ UNCHANGED <<pc, r, pool, eose_relays, time_last_event, now, stop, err,
                   calls, notification, runs>>

NextRelays ==
    \/ \E s \in RawStrings : CallAdd(s)
    \/ \E m \in 0..MaxSample : CallGetSome(m)
    \/ CallDump

SpecRelays == InitRelays /\ [][NextRelays]_vars

----------------------------------------------------------------------------
(* Properties *)

\* a step of the loop that processes an end-of-feed notification
EoseStep ==
    /\ pc = "listening"
    /\ now' = now
    /\ (notification'.type = "EndOfStoredEvents" \/ pc' = "failed")
    /\ \E u \in DOMAIN pool : HandleEose(u)

\* a step of the loop that processes an event
EventStep ==
    /\ pc = "listening"
    /\ now' = now
    /\ (notification'.type = "Event" \/ pc' = "failed")
    /\ \E e \in Events :
          /\ (e.kind = notification'.kind \/ pc' = "failed")
          /\ HandleEvent(e)

\* a step of the loop that processes one notification
HandleStep ==
    /\ pc = "listening"
    /\ now' = now
    /\ \/ EventStep
       \/ EoseStep
       \/ (notification'.type = "Message" \/ pc' = "failed") /\ HandleOtherMessage
       \/ notification'.type = "Shutdown" /\ HandleShutdown

\* a step of the loop body: a step taken while listening that is neither the
\* clock advancing, nor a relay changing status, nor a failed receive
LoopStep ==
    /\ pc = "listening"
    /\ now' = now
    /\ notification'.type # "RecvError"
    /\ ~(\E u \in DOMAIN pool, s \in LiveStatus : StatusChange(u, s))

\* the relays of the pool in Connected or Connecting status
Active(p) == {u \in DOMAIN p : p[u] \in {"Connected", "Connecting"}}

\* C1: on an end-of-feed notification the loop stops by the quorum rule iff,
\* after the reporting connection is inserted, |EndOfFeedSet| >= C+K and
\* C+K > 0; so with C+K fixed the quorum fires on the report that brings the
\* set to C+K members and on none before.
C1_QuorumIff ==
    [][EoseStep =>
        LET ck == Cardinality(Active(pool)) IN
        /\ (stop' = "quorum") <=> (Cardinality(eose_relays') >= ck /\ ck > 0)
        /\ (stop' = "quorum") => pc' = "draining"
        /\ Cardinality(eose_relays') < ck => stop' # "quorum"]_vars

\* C1 witness: two connections are active and the second distinct report stops the loop
C1_Witness ==
    /\ pc = "draining"
    /\ stop = "quorum"
    /\ Cardinality(Active(pool)) = 2
    /\ Cardinality(eose_relays) = 2
    /\ notification.type = "EndOfStoredEvents"

\* C2: when the loop stops by the quorum rule, every connection in Connected
\* or Connecting status has signalled end-of-feed.
C2_QuorumMeansAllActiveSignalled ==
    (pc = "draining" /\ stop = "quorum") => Active(pool) \subseteq eose_relays

\* C3: with no connection in Connected or Connecting status, no notification
\* makes the quorum rule stop the loop, whatever the size of EndOfFeedSet.
C3_NoFalseQuorum ==
    [][(pc = "listening" /\ Active(pool) = {}) => stop' # "quorum"]_vars

\* C3 witness: an end-of-feed report was processed with no active connection
\* and two members in EndOfFeedSet, and the loop goes on
C3_Witness ==
    /\ pc = "listening"
    /\ notification.type = "EndOfStoredEvents"
    /\ Active(pool) = {}
    /\ Cardinality(eose_relays) >= 2

\* the precondition of the idle rule, before a notification is processed
IdleDue == Cardinality(eose_relays) >= 2 /\ now - time_last_event > IDLE_SECS

\* a step of the loop that processes an event of a discovery-relevant kind
DiscoveryStep ==
    /\ pc = "listening"
    /\ now' = now
    /\ \E e \in Events : e.kind \in DiscoveryKinds /\ HandleEvent(e)

\* C4 as claimed: with >= 2 end-of-feed reports and > 20 s since the last
\* update of LastEventClock, the next notification processed stops the loop;
\* the idle rule never stops it with < 2 reports or an idle duration <= 20 s.
C4_IdleAsClaimed ==
    [][/\ (IdleDue /\ HandleStep) => pc' = "draining"
       /\ (pc = "listening" /\ stop' = "idle") =>
             (Cardinality(eose_relays') >= 2 /\ now' - time_last_event' > IDLE_SECS)]_vars

\* C4 amended: the same, for the next notification that is not a message of
\* a discovery-relevant kind; such a message resets LastEventClock and the
\* loop goes on.
C4_IdleAmended ==
    [][/\ (IdleDue /\ HandleStep /\ ~DiscoveryStep) => pc' = "draining"
       /\ (IdleDue /\ DiscoveryStep) => (pc' # "draining" /\ time_last_event' = now)
       /\ (pc = "listening" /\ stop' = "idle") =>
             (Cardinality(eose_relays') >= 2 /\ now' - time_last_event' > IDLE_SECS)]_vars

\* C4 witness: the idle rule stopped the loop on a notification that is no event
C4_Witness ==
    /\ pc = "draining"
    /\ stop = "idle"
    /\ notification.type = "Message"
    /\ now - time_last_event > IDLE_SECS
    /\ Cardinality(eose_relays) >= 2

\* C5 as claimed: the loop is left only by the quorum rule, the idle rule or
\* a shutdown notification.
C5_ExitsAsClaimed ==
    [][(pc = "listening" /\ pc' # "listening") =>
          (pc' = "draining" /\ stop' \in {"quorum", "idle", "shutdown"})]_vars

\* C5 amended: the loop is left only by the quorum rule, the idle rule, a
\* shutdown notification, a failed receive on the notification stream, or an
\* error returned by reconnect(); each cause only on its own notification.
C5_ExitsAmended ==
    [][(pc = "listening" /\ pc' # "listening") =>
          \/ /\ pc' = "draining"
             /\ stop' \in {"quorum", "idle", "shutdown", "recv_error"}
             /\ stop' = "quorum" => notification'.type = "EndOfStoredEvents"
             /\ stop' = "shutdown" => notification'.type = "Shutdown"
             /\ stop' = "recv_error" => notification'.type = "RecvError"
             /\ stop' = "idle" => notification'.type \in {"Event", "EndOfStoredEvents", "Message"}
             /\ err' = "none"
          \/ /\ pc' = "failed"
             /\ stop' = "none"
             /\ err' \in {"disconnect", "remove_relay", "add_relay"}
             /\ calls'[Len(calls')] \in {"disconnect", "add_some_relays"}]_vars

\* C5 witness: the loop was left because the receive on the stream failed
C5_Witness ==
    /\ pc = "draining"
    /\ stop = "recv_error"
    /\ notification.type = "RecvError"

\* reconnect() entered its branch in the step that left the call log c
Attempted(c) == "disconnect" \in Range(c)

RebuildSeq == <<"disconnect", "add_some_relays", "connect">>

EndsWith(c, suffix) ==
    Len(c) >= Len(suffix) /\ SubSeq(c, Len(c) - Len(suffix) + 1, Len(c)) = suffix

\* C6: disconnect -> activate(sample(capacity)) -> connect is started exactly
\* on the notification that makes the registry grow beyond a pool that is
\* below capacity, once, and on no notification that adds no address; when
\* no client call fails the pool is then the sample, all connecting.
C6_ReconnectOncePerGrowth ==
    [][LoopStep =>
        LET held == Cardinality(DOMAIN pool) IN
        /\ Attempted(calls') =>
              (r' # r /\ held < MAX_ACTIVE_RELAYS /\ Cardinality(r') > held)
        /\ (held < MAX_ACTIVE_RELAYS /\ Cardinality(r') > held) => Attempted(calls')
        /\ Cardinality({i \in DOMAIN calls' : calls'[i] = "disconnect"}) <= 1
        /\ (Attempted(calls') /\ err' = "none") =>
              /\ EndsWith(calls', RebuildSeq)
              /\ DOMAIN pool' \subseteq r'
              /\ (Cardinality(r') <= MAX_ACTIVE_RELAYS => DOMAIN pool' = r')
              /\ (Cardinality(r') > MAX_ACTIVE_RELAYS
                    => Cardinality(DOMAIN pool') = MAX_ACTIVE_RELAYS)
              /\ \A u \in DOMAIN pool' : pool'[u] = "Connecting"
              /\ pc' = "listening"]_vars

\* C6 witness: an event made the registry outgrow the pool and the pool was rebuilt
C6_Witness ==
    /\ pc = "listening"
    /\ calls = <<"processor.handle_event">> \o RebuildSeq
    /\ Cardinality(DOMAIN pool) = MAX_ACTIVE_RELAYS
    /\ Cardinality(r) = MAX_ACTIVE_RELAYS

\* C7: the pool of the client never holds more than capacity connections and
\* holds only registered addresses.
C7_PoolBounded ==
    /\ Cardinality(DOMAIN pool) <= MAX_ACTIVE_RELAYS
    /\ DOMAIN pool \subseteq r

\* C7 witness: the registry outgrew the capacity and the pool was rebuilt at capacity
C7_Witness ==
    /\ pc = "listening"
    /\ Cardinality(r) > MAX_ACTIVE_RELAYS
    /\ Cardinality(DOMAIN pool) = MAX_ACTIVE_RELAYS
    /\ EndsWith(calls, RebuildSeq)

\* C8: the registry only grows, and no two of its members are the same
\* normalized address.
C8_AppendOnly ==
    [][/\ r \subseteq r'
       /\ \A u, v \in r' : UrlParse(u) = UrlParse(v) => u = v]_vars

\* C8 witness: a run that seeded, discovered addresses, rebuilt the pool and stopped
C8_Witness ==
    /\ pc = "stopped"
    /\ Cardinality(r) = 3
    /\ Cardinality(DOMAIN pool) = MAX_ACTIVE_RELAYS

\* ret holds two consecutive add calls with the same well-formed argument,
\* the first on a registry without that address
AddedTwice ==
    /\ Len(ret) = 2
    /\ ret[1].op = "add"
    /\ ret[2].op = "add"
    /\ ret[1].arg = ret[2].arg
    /\ UrlParse(ret[1].arg) # NoUrl
    /\ UrlParse(ret[1].arg) \notin ret[1].before

\* C9: add(a) twice, for a well-formed a not in the registry, raises count()
\* by exactly 1; the first call returns true, the second returns false and
\* changes nothing.
C9_IdempotentAdd ==
    AddedTwice =>
        /\ ret[1].val = TRUE
        /\ ret[2].val = FALSE
        /\ ret[2].after = ret[2].before
        /\ RelaysCount(ret[2].after) = RelaysCount(ret[1].before) + 1
        /\ r = ret[2].after

\* C9 witness: an address given in a non-normalized form was added twice
C9_Witness ==
    /\ AddedTwice
    /\ ret[1].arg = "WSS://A/"
    /\ ret[2].val = FALSE
    /\ RelaysCount(r) = 2

\* C10: get_some(max) returns distinct registry members, at most max and at
\* most count() of them, for every max >= 0.
C10_BoundedSample ==
    (ret # <<>> /\ ret[Len(ret)].op = "get_some") =>
        LET c == ret[Len(ret)] IN
        /\ Len(c.val) <= c.arg
        /\ Len(c.val) <= RelaysCount(c.before)
        /\ Range(c.val) \subseteq c.before
        /\ \A i, j \in DOMAIN c.val : c.val[i] = c.val[j] => i = j

----------------------------------------------------------------------------
(* C11 *)

\* the relay addresses the event offers to Relays::add
Candidates(event) ==
    IF event.kind = "RecommendRelay" THEN {event.content}
    ELSE IF event.kind \in {"ContactList", "LongFormTextNote"}
    THEN {event.tags[i][2] : i \in {j \in DOMAIN event.tags :
               event.tags[j][1] = "PubKey" /\ event.tags[j][2] # NoHint}}
    ELSE {}

\* an event whose addresses all fail to parse
Malformed(event) ==
    /\ Candidates(event) # {}
    /\ \A s \in Candidates(event) : UrlParse(s) = NoUrl

\* the events of the model whose addresses all fail to parse
MalformedEvents == {x \in Events : Malformed(x)}

\* the strings of the model that Url::parse rejects
MalformedStrings == {s \in RawStrings : UrlParse(s) = NoUrl}

\* C11: Relays::add of a string that does not parse returns false and leaves
\* the set as it was; a received event whose addresses do not parse is handled
\* without an error, the registry stays as it was and the loop goes on.
C11_MalformedSafe ==
    [][ /\ \A s \in MalformedStrings : RelaysAdd(r, s) = [r |-> r, res |-> FALSE]
        /\ (pc = "listening" /\ now' = now /\ pc' # "listening")
              => \A e \in MalformedEvents : ~HandleEvent(e)
        /\ (pc = "listening" /\ now' = now /\ notification'.type = "Event")
              => \A e \in MalformedEvents :
                     (notification'.kind = e.kind /\ HandleEvent(e))
                                    => /\ r' = r
                                       /\ err' = "none"
                                       /\ stop' = "none"
                                       /\ calls' = <<"processor.handle_event">> ]_vars

\* a RecommendRelay event was handled and the registry is still empty: its
\* content did not parse, and the loop is still listening
C11_Witness ==
    /\ pc = "listening"
    /\ notification = [type |-> "Event", kind |-> "RecommendRelay"]
    /\ r = {}
    /\ err = "none"
    /\ RelaysAdd(r, "not a url").res = FALSE

----------------------------------------------------------------------------
(* C12 *)

\* the entries of a report that name the address s, compared as Relays
\* compares addresses: by the parsed url
EntriesOf(report, s) == {i \in DOMAIN report : UrlParse(report[i][2]) = UrlParse(s)}

\* C12: whatever the registry holds, the final report names the fixed seed
\* address exactly once.
C12_SeedOnce ==
    pc = "stopped" => Cardinality(EntriesOf(ret, SEED_URL)) = 1

----------------------------------------------------------------------------
(* C13 *)

\* C13: a failure of the client's add_relay or remove_relay during a pool
\* rebuild (in run() or in reconnect()) does not abort the run: run() never
\* returns that error.
C13_RebuildFailureNonFatal ==
    ~(pc = "failed" /\ err \in {"add_relay", "remove_relay"})

----------------------------------------------------------------------------
(* C14 *)

\* the client call op of the last step failed
Failed(op) == \E i \in 1..(Len(calls) - 1) : calls[i] = op /\ calls[i + 1] = "Err"

\* C14: a failure of subscribe, of unsubscribe or of disconnect aborts the
\* run, and run() returns that error.
C14_FailuresFatal ==
    /\ Failed("subscribe") => (pc = "failed" /\ err = "subscribe")
    /\ Failed("unsubscribe") => (pc = "failed" /\ err = "unsubscribe")
    /\ err = "disconnect" => pc = "failed"

----------------------------------------------------------------------------
(* C15 *)

\* the call log c holds exactly the calls a then b, in this order
InOrder(c, a, b) ==
    /\ Range(c) \subseteq {a, b, "Err"}
    /\ \E i, j \in DOMAIN c : i < j /\ c[i] = a /\ c[j] = b
    /\ Cardinality({i \in DOMAIN c : c[i] \in {a, b}}) = 2

\* C15: the loop is left only by a stop decision, in a step that rebuilds
\* nothing; what follows is unsubscribe, then disconnect of every relay,
\* then the report, and between the stop decision and the report no
\* notification is handled and the registry, the clock and the cause of the
\* stop stay as they were.
C15_DrainOrder ==
    [][ /\ pc' = "draining" =>
              (pc = "listening" /\ stop' # "none" /\ ~Attempted(calls'))
        /\ pc = "draining" =>
              /\ pc' \in {"dump", "failed"}
              /\ InOrder(calls', "unsubscribe", "disconnect")
              /\ UNCHANGED <<r, time_last_event, stop>>
        /\ pc' = "dump" =>
              (pc = "draining" /\ \A u \in DOMAIN pool' : pool'[u] = "Terminated")
        /\ pc = "dump" =>
              /\ pc' = "stopped"
              /\ calls' = <<"dump">>
              /\ UNCHANGED <<r, pool, time_last_event, stop, notification>>
        /\ pc' = "stopped" => (pc = "dump" /\ Len(ret') = Cardinality(r) + 1) ]_vars

\* the loop stopped on the quorum, unsubscribe and disconnect are done, the
\* report comes next
C15_Witness ==
    /\ pc = "dump"
    /\ stop = "quorum"
    /\ calls = <<"unsubscribe", "disconnect">>
    /\ DOMAIN pool # {}
    /\ \A u \in DOMAIN pool : pool[u] = "Terminated"

----------------------------------------------------------------------------
(* C16 *)

\* the events of the model of a kind that handle_event only prints
OtherEvents == {e \in Events : e.kind \in OtherKinds}

\* how often the call log c holds a call of the processor
Forwarded(c) == Cardinality({i \in DOMAIN c : c[i] = "processor.handle_event"})

\* C16: handling an event of a kind that is not discovery-relevant leaves the
\* registry and time_last_event as they were; every event, of whatever
\* kind, is handed to the processor exactly once.
C16_OtherKindsForwarded ==
    [][LoopStep =>
          /\ notification'.type = "Event" =>
                /\ Forwarded(calls') = 1
                /\ notification'.kind \in OtherKinds
                      => UNCHANGED <<r, time_last_event, pool>>
          /\ (pc' = "failed" /\ EventStep) => Forwarded(calls') = 1]_vars

\* a TextNote event was handled some time after the last update of the
\* clock: the clock and the empty registry are as before, although the event
\* carries a relay hint and an address as content
C16_Witness ==
    /\ pc = "listening"
    /\ notification = [type |-> "Event", kind |-> "TextNote"]
    /\ Forwarded(calls) = 1
    /\ time_last_event < now
    /\ r = {}

----------------------------------------------------------------------------
(* C17 *)

\* the quorum condition on the set eose and the pool p
QuorumHolds(eose, p) ==
    QuorumStop(Cardinality(eose),
               Cardinality({u \in DOMAIN p : p[u] = "Connected"}),
               Cardinality({u \in DOMAIN p : p[u] = "Connecting"}))

\* C17 as claimed: the quorum condition is checked after every notification,
\* so no notification is processed in a state where it holds without the
\* loop stopping.
C17_ChecksAsClaimed ==
    [][(pc = "listening" /\ QuorumHolds(eose_relays, pool) /\ HandleStep)
          => pc' # "listening"]_vars

\* C17 amended: the quorum condition is checked only on an end-of-feed
\* notification, after the insert and before the idle condition; the idle
\* condition is checked after every notification that did not break out of
\* the match; an event or another message is processed in a state where the
\* quorum condition holds without the loop stopping on it.
C17_ChecksAmended ==
    [][(pc = "listening" /\ now' = now /\ pc' # "failed" /\ HandleStep) =>
          LET idle == IdleStop(get_last_event_ago(now, time_last_event'),
                               Cardinality(eose_relays'))
              quorum == QuorumHolds(eose_relays', pool)
          IN /\ stop' = "quorum" => notification'.type = "EndOfStoredEvents"
             /\ (notification'.type = "EndOfStoredEvents" /\ quorum)
                   => (stop' = "quorum" /\ pc' = "draining")
             /\ (notification'.type = "EndOfStoredEvents" /\ ~quorum)
                   => (IF idle THEN stop' = "idle" /\ pc' = "draining"
                               ELSE pc' = "listening")
             /\ notification'.type \in {"Event", "Message"}
                   => (IF idle THEN stop' = "idle" /\ pc' = "draining"
                               ELSE pc' = "listening")]_vars

\* the last end-of-feed report met both conditions and the loop stopped on
\* the quorum, which is checked first
C17_Witness ==
    /\ pc = "draining"
    /\ stop = "quorum"
    /\ notification.type = "EndOfStoredEvents"
    /\ IdleDue

----------------------------------------------------------------------------
(* C18 *)

\* C18: the pool is rebuilt only while an event is handled that added an
\* address to the registry; an end-of-feed notification, an event that added
\* nothing and any other notification leave the pool of the client alone.
C18_RebuildOnlyOnDiscovery ==
    [][LoopStep =>
          /\ Attempted(calls') =>
                /\ r' # r
                /\ r \subseteq r'
                /\ Head(calls') = "processor.handle_event"
                /\ (notification'.type = "Event" \/ pc' = "failed")
          /\ (r' = r \/ notification'.type \in {"EndOfStoredEvents", "Message", "Shutdown"})
                => (~Attempted(calls') /\ pool' = pool)]_vars

\* a ContactList event was handled and the pool was rebuilt in the same step
C18_Witness ==
    /\ pc = "listening"
    /\ notification = [type |-> "Event", kind |-> "ContactList"]
    /\ EndsWith(calls, RebuildSeq)
    /\ DOMAIN pool # {}
    /\ \A u \in DOMAIN pool : pool[u] = "Connecting"

----------------------------------------------------------------------------
(* C19 *)

----------------------------------------------------------------------------
(* C20 *)

Min(a, b) == IF a <= b THEN a ELSE b

\* C20: after the initial activation and after every reconnect that rebuilt
\* the pool without an error, the pool holds exactly min(count(), capacity)
\* relays, so the condition of reconnect() is false.
C20_PoolFullAfterRebuild ==
    (pc = "connect" \/ (pc = "listening" /\ EndsWith(calls, RebuildSeq))) =>
        /\ Cardinality(DOMAIN pool) = Min(RelaysCount(r), MAX_ACTIVE_RELAYS)
        /\ ~ReconnectCond(Cardinality(DOMAIN pool), RelaysCount(r))

\* a reconnect rebuilt the pool from a registry larger than the capacity
C20_Witness ==
    /\ pc = "listening"
    /\ EndsWith(calls, RebuildSeq)
    /\ RelaysCount(r) > MAX_ACTIVE_RELAYS
    /\ Cardinality(DOMAIN pool) = MAX_ACTIVE_RELAYS
====
